---- MODULE Spec2Model ----
\* Model of coq/clients/cache/worker.py: the completion cache worker.
\* A CacheWorker owns one immutable _CacheCtx snapshot behind a Lock; _use_cache
\* (the get path) and _set_cache (the set path) may be run by several threads.
EXTENDS Integers, Sequences, FiniteSets, TLC

\* ---------------------------------------------------------------- bounds
NumThreads == 2
MaxOps == 3
MaxLineLen == 1
MaxBatch == 2
MaxHashes == 2

\* ---------------------------------------------------------------- input domains
Threads == 1..NumThreads
NoThread == 0

Chars == {"a", "b"}
UUIDs == {1, 2}
BufIds == {1, 2}
Rows == {0, 1}
Uids == {1, 2}

RECURSIVE SeqsUpTo(_, _)
SeqsUpTo(S, n) ==
    IF n = 0 THEN {<<>>}
    ELSE LET shorter == SeqsUpTo(S, n - 1)
         IN shorter \cup {Append(s, x) : s \in {q \in shorter : Len(q) = n - 1}, x \in S}

Lines == SeqsUpTo(Chars, MaxLineLen)

\* shared.types.Context, the fields the worker reads
Context(change_id, commit_id, buf_id, row, line_before) ==
    [change_id |-> change_id, commit_id |-> commit_id, buf_id |-> buf_id,
     position |-> <<row, Len(line_before)>>, line_before |-> line_before]

\* shared.types edits: Edit carries new_text only, the subclasses carry more
Edit(new_text) == [type |-> "Edit", new_text |-> new_text]
SnippetEdit(new_text) == [type |-> "SnippetEdit", new_text |-> new_text, grammar |-> "lsp"]
RangeEdit(new_text) ==
    [type |-> "RangeEdit", new_text |-> new_text, begin |-> <<0, 0>>, end |-> <<0, 1>>]

Completion(uid, primary_edit, secondary_edits) ==
    [uid |-> uid, primary_edit |-> primary_edit, secondary_edits |-> secondary_edits]

\* uid.bytes: the big-endian byte string of the UUID
Bytes(uid) == <<uid \div 256, uid % 256>>

\* ---------------------------------------------------------------- pure functions
CacheCtx(change_id, commit_id, buf_id, row, line_before, comps) ==
    [change_id |-> change_id, commit_id |-> commit_id, buf_id |-> buf_id,
     row |-> row, line_before |-> line_before, comps |-> comps]

\* str.startswith
StartsWith(s, prefix) ==
    /\ Len(prefix) <= Len(s)
    /\ SubSeq(s, 1, Len(prefix)) = prefix

\* _use_cache comparing the line for equality instead of startswith
UseCacheSameLine(cache, ctx) ==
    /\ cache.commit_id = ctx.commit_id
    /\ Cardinality(DOMAIN cache.comps) > 0
    /\ ctx.buf_id = cache.buf_id
    /\ ctx.position[1] = cache.row
    /\ ctx.line_before = cache.line_before

\* _use_cache without the row comparison
UseCacheAnyRow(cache, ctx) ==
    /\ cache.commit_id = ctx.commit_id
    /\ Cardinality(DOMAIN cache.comps) > 0
    /\ ctx.buf_id = cache.buf_id
    /\ StartsWith(ctx.line_before, cache.line_before)

\* _use_cache without the len(cache.comps) > 0 test
UseCacheEmptyToo(cache, ctx) ==
    /\ cache.commit_id = ctx.commit_id
    /\ ctx.buf_id = cache.buf_id
    /\ ctx.position[1] = cache.row
    /\ StartsWith(ctx.line_before, cache.line_before)

\* the module-level _use_cache(cache, ctx)
UseCache(cache, ctx) ==
    LET row == ctx.position[1]
    IN /\ cache.commit_id = ctx.commit_id
       /\ Cardinality(DOMAIN cache.comps) > 0
       /\ ctx.buf_id = cache.buf_id
       /\ row = cache.row
       /\ StartsWith(ctx.line_before, cache.line_before)

\* _trans keeping every kind of primary edit
TransKeepKind(comp) == [comp EXCEPT !.secondary_edits = <<>>]

\* _trans rebuilding every primary edit as a plain edit
TransAlwaysPlain(comp) ==
    [comp EXCEPT !.primary_edit = Edit(comp.primary_edit.new_text),
                 !.secondary_edits = <<>>]

\* _trans(comp)
Trans(comp) ==
    LET p_edit == comp.primary_edit
        edit == IF p_edit.type \in {"Edit", "SnippetEdit"}
                THEN p_edit
                ELSE Edit(p_edit.new_text)
    IN [comp EXCEPT !.primary_edit = edit, !.secondary_edits = <<>>]

\* a dict literal {**a, **b}: b's entries win
Overlay(a, b) ==
    [k \in DOMAIN a \cup DOMAIN b |-> IF k \in DOMAIN b THEN b[k] ELSE a[k]]

EmptyDict == [k \in {} |-> 0]

\* new_comps with the first occurrence of a uid winning
RECURSIVE NewCompsFirstWins(_)
NewCompsFirstWins(completions) ==
    IF completions = <<>> THEN EmptyDict
    ELSE LET c == Trans(Head(completions))
         IN Overlay(NewCompsFirstWins(Tail(completions)), [k \in {Bytes(c.uid)} |-> c])

\* {c.uid.bytes: c for c in map(_trans, completions)}: the last occurrence wins
RECURSIVE NewComps(_)
NewComps(completions) ==
    IF completions = <<>> THEN EmptyDict
    ELSE LET n == Len(completions)
             c == Trans(completions[n])
         IN Overlay(NewComps(SubSeq(completions, 1, n - 1)),
                    [k \in {Bytes(c.uid)} |-> c])

\* comps merged whatever use_cache says
CompsAlwaysMerge(cache, use_cache, new_comps) == Overlay(cache.comps, new_comps)

\* comps merged with the old entry winning a key collision
CompsOldWins(cache, use_cache, new_comps) ==
    IF use_cache THEN Overlay(new_comps, cache.comps) ELSE new_comps

\* comps = {**cache_ctx.comps, **new_comps} if use_cache else new_comps
Comps(cache, use_cache, new_comps) ==
    IF use_cache THEN Overlay(cache.comps, new_comps) ELSE new_comps

\* new_cache_ctx keeping the line_before of the snapshot that was read
NewCacheCtxOldLine(cache, ctx, completions) ==
    CacheCtx(ctx.change_id, ctx.commit_id, ctx.buf_id, ctx.position[1],
             cache.line_before,
             Comps(cache, UseCache(cache, ctx), NewComps(completions)))

\* new_cache_ctx of _set_cache
NewCacheCtx(cache, ctx, completions) ==
    CacheCtx(ctx.change_id, ctx.commit_id, ctx.buf_id, ctx.position[1],
             ctx.line_before,
             Comps(cache, UseCache(cache, ctx), NewComps(completions)))

\* pool={hash_id: c.primary_edit.new_text for hash_id, c in new_comps.items()}
Pool(new_comps) == [k \in DOMAIN new_comps |-> new_comps[k].primary_edit.new_text]

\* tuple(cont()) of the get path: the cached completions of the hashes, in order
RECURSIVE Cont(_, _)
Cont(hashes, comps) ==
    IF hashes = <<>> THEN <<>>
    ELSE LET rest == Cont(Tail(hashes), comps)
         IN IF Head(hashes) \in DOMAIN comps
            THEN <<comps[Head(hashes)]>> \o rest
            ELSE rest

\* ---------------------------------------------------------------- the lookup store
\* Database.populate(use_cache, pool): a replace drops the index, then the pool's
\* identifiers are indexed
Populate(index, use_cache, pool) ==
    (IF use_cache THEN index ELSE {}) \cup DOMAIN pool

\* Database.select(options, word): some ordered selection of indexed identifiers
Select(index) == SeqsUpTo(index, MaxHashes)

\* ---------------------------------------------------------------- state
VARIABLES
    self_cache_ctx,  \* CacheWorker._cache_ctx
    lock,            \* CacheWorker._lock: NoThread, or the thread holding it
    db,              \* the identifiers the lookup store has indexed
    pc,              \* each thread's position in _use_cache / _set_cache
    context,         \* each thread's `context` argument
    completions,     \* each thread's `completions` argument (set path)
    cache_ctx,       \* each thread's local `cache_ctx`
    result,          \* the value a finished _use_cache returns
    calls,           \* the lookup-store calls the thread's invocation has made
    overlapped,      \* whether another invocation ran during the thread's invocation
    last,            \* the invocation that returned last
    installs,        \* the installs so far, in order, each with its invocation
    ops,             \* invocations started so far
    acquired,        \* how often the thread's invocation has taken the lock
    raced            \* whether a set was called while another set had not installed

vars == <<self_cache_ctx, lock, db, pc, context, completions, cache_ctx, result,
          calls, overlapped, last, installs, ops, acquired, raced>>

None == [none |-> TRUE]

\* the value of a `return tuple(...)`, as opposed to None
Returned(tuple) == [tuple |-> tuple]

\* CacheWorker.__init__: uuid4() identifiers no request carries, sentinel buffer and row
InitCacheCtx == CacheCtx(0, 0, -1, -1, <<>>, EmptyDict)

Init ==
    /\ self_cache_ctx = InitCacheCtx
    /\ lock = NoThread
    /\ db = {}
    /\ pc = [t \in Threads |-> "idle"]
    /\ context = [t \in Threads |-> None]
    /\ completions = [t \in Threads |-> <<>>]
    /\ cache_ctx = [t \in Threads |-> None]
    /\ result = [t \in Threads |-> None]
    /\ calls = [t \in Threads |-> <<>>]
    /\ overlapped = [t \in Threads |-> FALSE]
    /\ last = None
    /\ installs = <<>>
    /\ ops = 0
    /\ acquired = [t \in Threads |-> 0]
    /\ raced = FALSE

InFlight == {t \in Threads : pc[t] # "idle"}

\* a call that starts while other invocations run overlaps each of them
Enter(t) ==
    /\ pc[t] = "idle"
    /\ ops < MaxOps
    /\ ops' = ops + 1
    /\ overlapped' = [u \in Threads |->
                        IF u = t THEN InFlight # {}
                        ELSE IF u \in InFlight THEN TRUE ELSE overlapped[u]]

\* `with self._lock:` entered
Acquire(t) ==
    /\ lock = NoThread
    /\ lock' = t
    /\ acquired' = [acquired EXCEPT ![t] = @ + 1]

\* a with-block that is left with the lock still held
ReleaseNever(t) ==
    /\ lock = t
    /\ UNCHANGED lock

\* `with self._lock:` left
Release(t) ==
    /\ lock = t
    /\ lock' = NoThread

\* ---------------------------------------------------------------- _use_cache (get)
GetCall(t, ctx) ==
    /\ Enter(t)
    /\ pc' = [pc EXCEPT ![t] = "g_lock"]
    /\ context' = [context EXCEPT ![t] = ctx]
    /\ UNCHANGED <<self_cache_ctx, lock, db, completions, cache_ctx, result, calls,
                   last, installs,
                   acquired, raced>>

GetAcquire(t) ==
    /\ pc[t] = "g_lock"
    /\ Acquire(t)
    /\ pc' = [pc EXCEPT ![t] = "g_read"]
    /\ UNCHANGED <<self_cache_ctx, db, context, completions, cache_ctx, result, calls,
                   overlapped, last, installs, ops,
                   raced>>

\* cache_ctx = self._cache_ctx, and the lock is released
GetRead(t) ==
    /\ pc[t] = "g_read"
    /\ cache_ctx' = [cache_ctx EXCEPT ![t] = self_cache_ctx]
    /\ Release(t)
    /\ pc' = [pc EXCEPT ![t] = "g_check"]
    /\ UNCHANGED <<self_cache_ctx, db, context, completions, result, calls,
                   overlapped, last, installs, ops,
                   acquired, raced>>

\* a miss that queries the store before it returns None
GetMissSelecting(t) ==
    /\ pc[t] = "g_check"
    /\ ~UseCache(cache_ctx[t], context[t])
    /\ \E hashes \in Select(db) :
          calls' = [calls EXCEPT ![t] = Append(@, [fn |-> "select", hashes |-> hashes])]
    /\ result' = [result EXCEPT ![t] = None]
    /\ pc' = [pc EXCEPT ![t] = "g_done"]
    /\ UNCHANGED <<self_cache_ctx, lock, db, context, completions, cache_ctx,
                   overlapped, last, installs, ops, acquired, raced>>

\* the else branch: return None
GetMiss(t) ==
    /\ pc[t] = "g_check"
    /\ ~UseCache(cache_ctx[t], context[t])
    /\ result' = [result EXCEPT ![t] = None]
    /\ pc' = [pc EXCEPT ![t] = "g_done"]
    /\ UNCHANGED <<self_cache_ctx, lock, db, context, completions, cache_ctx, calls,
                   overlapped, last, installs, ops,
                   acquired, raced>>

\* a select whose hashes are resolved against the snapshot current after the query
GetSelectCurrent(t) ==
    /\ pc[t] = "g_check"
    /\ UseCache(cache_ctx[t], context[t])
    /\ \E hashes \in Select(db) :
          /\ calls' = [calls EXCEPT ![t] = Append(@, [fn |-> "select", hashes |-> hashes])]
          /\ result' = [result EXCEPT ![t] = Returned(Cont(hashes, self_cache_ctx.comps))]
    /\ pc' = [pc EXCEPT ![t] = "g_done"]
    /\ UNCHANGED <<self_cache_ctx, lock, db, context, completions, cache_ctx,
                   overlapped, last, installs, ops, acquired, raced>>

\* hashes = self._db.select(...); return tuple(cont())
GetSelect(t) ==
    /\ pc[t] = "g_check"
    /\ UseCache(cache_ctx[t], context[t])
    /\ \E hashes \in Select(db) :
          /\ calls' = [calls EXCEPT ![t] = Append(@, [fn |-> "select", hashes |-> hashes])]
          /\ result' = [result EXCEPT ![t] = Returned(Cont(hashes, cache_ctx[t].comps))]
    /\ pc' = [pc EXCEPT ![t] = "g_done"]
    /\ UNCHANGED <<self_cache_ctx, lock, db, context, completions, cache_ctx,
                   overlapped, last, installs, ops,
                   acquired, raced>>

GetReturn(t) ==
    /\ pc[t] = "g_done"
    /\ last' = [op |-> "get", overlapped |-> overlapped[t]]
    /\ pc' = [pc EXCEPT ![t] = "idle"]
    /\ context' = [context EXCEPT ![t] = None]
    /\ cache_ctx' = [cache_ctx EXCEPT ![t] = None]
    /\ result' = [result EXCEPT ![t] = None]
    /\ calls' = [calls EXCEPT ![t] = <<>>]
    /\ acquired' = [acquired EXCEPT ![t] = 0]
    /\ UNCHANGED <<self_cache_ctx, lock, db, completions, overlapped, installs, ops,
                   raced>>

\* ---------------------------------------------------------------- _set_cache (set)
\* the positions of _set_cache before its assignment to self._cache_ctx
BeforeInstall == {"s_lock", "s_read", "s_populate", "s_lock2", "s_install"}

SetCall(t, ctx, comps) ==
    /\ Enter(t)
    /\ pc' = [pc EXCEPT ![t] = "s_lock"]
    /\ context' = [context EXCEPT ![t] = ctx]
    /\ completions' = [completions EXCEPT ![t] = comps]
    /\ raced' = (raced \/ \E u \in Threads \ {t} : pc[u] \in BeforeInstall)
    /\ UNCHANGED <<self_cache_ctx, lock, db, cache_ctx, result, calls, last, installs,
                   acquired>>

SetAcquire(t) ==
    /\ pc[t] = "s_lock"
    /\ Acquire(t)
    /\ pc' = [pc EXCEPT ![t] = "s_read"]
    /\ UNCHANGED <<self_cache_ctx, db, context, completions, cache_ctx, result, calls,
                   overlapped, last, installs, ops,
                   raced>>

\* a read that keeps the lock for the rest of the invocation
SetReadHolding(t) ==
    /\ pc[t] = "s_read"
    /\ cache_ctx' = [cache_ctx EXCEPT ![t] = self_cache_ctx]
    /\ pc' = [pc EXCEPT ![t] = "s_populate"]
    /\ UNCHANGED <<self_cache_ctx, lock, db, context, completions, result, calls,
                   overlapped, last, installs, ops, acquired, raced>>

\* cache_ctx = self._cache_ctx, and the lock is released
SetRead(t) ==
    /\ pc[t] = "s_read"
    /\ cache_ctx' = [cache_ctx EXCEPT ![t] = self_cache_ctx]
    /\ Release(t)
    /\ pc' = [pc EXCEPT ![t] = "s_populate"]
    /\ UNCHANGED <<self_cache_ctx, db, context, completions, result, calls,
                   overlapped, last, installs, ops,
                   acquired, raced>>

\* the flag evaluated on the snapshot current at the time of the call
PopulateFlagCurrent(t) == UseCache(self_cache_ctx, context[t])

\* a flag that always asks the store to keep its index
PopulateFlagKeep(t) == TRUE

\* the flag _set_cache passes to populate
PopulateFlag(t) == UseCache(cache_ctx[t], context[t])

\* a populate whose pool is built from the merged mapping
SetPopulateMerged(t) ==
    /\ pc[t] = "s_populate"
    /\ LET pool == Pool(Comps(cache_ctx[t], PopulateFlag(t), NewComps(completions[t])))
       IN /\ db' = Populate(db, PopulateFlag(t), pool)
          /\ calls' = [calls EXCEPT ![t] =
                          Append(@, [fn |-> "populate", use_cache |-> PopulateFlag(t),
                                     pool |-> pool])]
    /\ pc' = [pc EXCEPT ![t] = "s_lock2"]
    /\ UNCHANGED <<self_cache_ctx, lock, context, completions, cache_ctx, result,
                   overlapped, last, installs, ops, acquired, raced>>

\* self._db.populate(use_cache, pool=...)
SetPopulate(t) ==
    /\ pc[t] = "s_populate"
    /\ LET pool == Pool(NewComps(completions[t]))
       IN /\ db' = Populate(db, PopulateFlag(t), pool)
          /\ calls' = [calls EXCEPT ![t] =
                          Append(@, [fn |-> "populate", use_cache |-> PopulateFlag(t),
                                     pool |-> pool])]
    /\ pc' = [pc EXCEPT ![t] = "s_lock2"]
    /\ UNCHANGED <<self_cache_ctx, lock, context, completions, cache_ctx, result,
                   overlapped, last, installs, ops,
                   acquired, raced>>

SetAcquire2(t) ==
    /\ pc[t] = "s_lock2"
    /\ Acquire(t)
    /\ pc' = [pc EXCEPT ![t] = "s_install"]
    /\ UNCHANGED <<self_cache_ctx, db, context, completions, cache_ctx, result, calls,
                   overlapped, last, installs, ops,
                   raced>>

\* an install that leaves the line_before of the current snapshot in place
InstalledInPlace(t) ==
    [NewCacheCtx(cache_ctx[t], context[t], completions[t])
        EXCEPT !.line_before = self_cache_ctx.line_before]

\* an install that merges into the snapshot current at install time
InstalledOnCurrent(t) == NewCacheCtx(self_cache_ctx, context[t], completions[t])

\* the snapshot _set_cache assigns to self._cache_ctx
Installed(t) == NewCacheCtx(cache_ctx[t], context[t], completions[t])

\* self._cache_ctx = new_cache_ctx, and the lock is released
SetInstall(t) ==
    /\ pc[t] = "s_install"
    /\ self_cache_ctx' = Installed(t)
    /\ installs' = Append(installs, [context |-> context[t],
                                      completions |-> completions[t],
                                      cache_ctx |-> cache_ctx[t], thread |-> t])
    /\ Release(t)
    /\ pc' = [pc EXCEPT ![t] = "s_done"]
    /\ UNCHANGED <<db, context, completions, cache_ctx, result, calls, overlapped,
                   last, ops,
                   acquired, raced>>

SetReturn(t) ==
    /\ pc[t] = "s_done"
    /\ last' = [op |-> "set", overlapped |-> overlapped[t], context |-> context[t],
                completions |-> completions[t], cache_ctx |-> cache_ctx[t]]
    /\ pc' = [pc EXCEPT ![t] = "idle"]
    /\ context' = [context EXCEPT ![t] = None]
    /\ completions' = [completions EXCEPT ![t] = <<>>]
    /\ cache_ctx' = [cache_ctx EXCEPT ![t] = None]
    /\ calls' = [calls EXCEPT ![t] = <<>>]
    /\ acquired' = [acquired EXCEPT ![t] = 0]
    /\ UNCHANGED <<self_cache_ctx, lock, db, result, overlapped, installs, ops,
                   raced>>

\* ---------------------------------------------------------------- a store call that raises
\* self._db.select(...) raises: the exception leaves _use_cache
GetSelectFails(t) ==
    /\ pc[t] = "g_check"
    /\ UseCache(cache_ctx[t], context[t])
    /\ calls' = [calls EXCEPT ![t] = Append(@, [fn |-> "select", raised |-> TRUE])]
    /\ pc' = [pc EXCEPT ![t] = "g_raised"]
    /\ UNCHANGED <<self_cache_ctx, lock, db, context, completions, cache_ctx, result,
                   overlapped, last, installs, ops, acquired, raced>>

\* a failing populate whose exception is swallowed, so that the install still runs
SetPopulateFailsInstalling(t) ==
    /\ pc[t] = "s_populate"
    /\ calls' = [calls EXCEPT ![t] =
                    Append(@, [fn |-> "populate", use_cache |-> PopulateFlag(t),
                               pool |-> Pool(NewComps(completions[t])),
                               raised |-> TRUE])]
    /\ self_cache_ctx' = Installed(t)
    /\ pc' = [pc EXCEPT ![t] = "s_raised"]
    /\ UNCHANGED <<lock, db, context, completions, cache_ctx, result,
                   overlapped, last, installs, ops, acquired, raced>>

\* self._db.populate(...) raises: the exception leaves _set_cache before the
\* second `with self._lock:`; the store may or may not have taken the pool
SetPopulateFails(t) ==
    /\ pc[t] = "s_populate"
    /\ LET pool == Pool(NewComps(completions[t]))
       IN /\ db' \in {db, Populate(db, PopulateFlag(t), pool)}
          /\ calls' = [calls EXCEPT ![t] =
                          Append(@, [fn |-> "populate", use_cache |-> PopulateFlag(t),
                                     pool |-> pool, raised |-> TRUE])]
    /\ pc' = [pc EXCEPT ![t] = "s_raised"]
    /\ UNCHANGED <<self_cache_ctx, lock, context, completions, cache_ctx, result,
                   overlapped, last, installs, ops, acquired, raced>>

\* the exception reaches the caller of _use_cache or _set_cache
Raise(t) ==
    /\ pc[t] \in {"g_raised", "s_raised"}
    /\ last' = [op |-> "raised", at |-> pc[t], overlapped |-> overlapped[t]]
    /\ pc' = [pc EXCEPT ![t] = "idle"]
    /\ context' = [context EXCEPT ![t] = None]
    /\ completions' = [completions EXCEPT ![t] = <<>>]
    /\ cache_ctx' = [cache_ctx EXCEPT ![t] = None]
    /\ calls' = [calls EXCEPT ![t] = <<>>]
    /\ acquired' = [acquired EXCEPT ![t] = 0]
    /\ UNCHANGED <<self_cache_ctx, lock, db, result, overlapped, installs, ops, raced>>

\* ---------------------------------------------------------------- specifications
\* request contexts: every combination of revision, buffer, row and line
Contexts ==
    {Context(1, co, b, r, l) : co \in UUIDs, b \in BufIds, r \in Rows, l \in Lines}

\* request contexts on one buffer row
RowContexts ==
    {Context(ch, co, 1, 0, l) : ch \in {1}, co \in UUIDs, l \in {<<>>, <<"a">>}}

\* completions as the pipeline hands them over: plain edits, and a range edit
\* with secondary edits that shares its uid with a plain one
Completions ==
    {Completion(u, Edit("x"), <<>>) : u \in Uids}
        \cup {Completion(1, RangeEdit("y"), <<RangeEdit("z")>>)}

Batches == SeqsUpTo(Completions, MaxBatch)

\* batches of at most one plain completion
SmallBatches == SeqsUpTo({Completion(u, Edit("x"), <<>>) : u \in Uids}, 1)

\* the empty batch and a batch of one completion
UnitBatches == {<<>>, <<Completion(1, Edit("x"), <<>>)>>}

Step(T, C, B) ==
    \/ \E t \in T, ctx \in C : GetCall(t, ctx)
    \/ \E t \in T : GetAcquire(t)
    \/ \E t \in T : GetRead(t)
    \/ \E t \in T : GetMiss(t)
    \/ \E t \in T : GetSelect(t)
    \/ \E t \in T : GetReturn(t)
    \/ \E t \in T, ctx \in C, comps \in B : SetCall(t, ctx, comps)
    \/ \E t \in T : SetAcquire(t)
    \/ \E t \in T : SetRead(t)
    \/ \E t \in T : SetPopulate(t)
    \/ \E t \in T : SetAcquire2(t)
    \/ \E t \in T : SetInstall(t)
    \/ \E t \in T : SetReturn(t)

\* concurrent invocations on one buffer row
Next == Step(Threads, RowContexts, SmallBatches)
Spec == Init /\ [][Next]_vars

\* one invocation at a time, any request context
NextSeq == Step({1}, Contexts, UnitBatches)
SpecSeq == Init /\ [][NextSeq]_vars

\* one invocation at a time, any batch
NextBatch == Step({1}, RowContexts, Batches)
SpecBatch == Init /\ [][NextBatch]_vars

\* request contexts at the start of one buffer row, on either revision
OneLineContexts == {Context(1, co, 1, 0, <<>>) : co \in UUIDs}

\* completions of every kind of primary edit, with and without secondary edits
KindCompletions ==
    {Completion(u, e, sec) :
        u \in Uids,
        e \in {Edit("x"), SnippetEdit("x"), RangeEdit("y")},
        sec \in {<<>>, <<RangeEdit("z")>>}}

KindBatches == SeqsUpTo(KindCompletions, 1)

\* one invocation at a time, any kind of completion
NextKinds == Step({1}, OneLineContexts, KindBatches)
SpecKinds == Init /\ [][NextKinds]_vars

\* concurrent invocations whose store calls may raise
NextFail ==
    \/ Step(Threads, OneLineContexts, UnitBatches)
    \/ \E t \in Threads : GetSelectFails(t)
    \/ \E t \in Threads : SetPopulateFails(t)
    \/ \E t \in Threads : Raise(t)
SpecFail == Init /\ [][NextFail]_vars

\* the steps of a started invocation of thread t
Proceed(t) ==
    \/ GetAcquire(t) \/ GetRead(t) \/ GetMiss(t) \/ GetSelect(t) \/ GetReturn(t)
    \/ SetAcquire(t) \/ SetRead(t) \/ SetPopulate(t) \/ SetAcquire2(t)
    \/ SetInstall(t) \/ SetReturn(t)

\* concurrent invocations, every thread scheduled again and again, store
\* calls that return
NextLive == Step(Threads, OneLineContexts, UnitBatches)
SpecLive == Init /\ [][NextLive]_vars /\ \A t \in Threads : WF_vars(Proceed(t))

\* ---------------------------------------------------------------- properties
\* p is an initial segment of s
IsPrefix(p, s) == \E n \in 0..Len(s) : p = SubSeq(s, 1, n)

\* the five validity conditions of a snapshot against a request context
SameCommit(snap, ctx) == snap.commit_id = ctx.commit_id
SameBuffer(snap, ctx) == snap.buf_id = ctx.buf_id
SameRow(snap, ctx) == snap.row = ctx.position[1]
Extends(snap, ctx) == IsPrefix(snap.line_before, ctx.line_before)
NonEmpty(snap) == DOMAIN snap.comps # {}

AllValid(snap, ctx) ==
    /\ SameCommit(snap, ctx)
    /\ SameBuffer(snap, ctx)
    /\ SameRow(snap, ctx)
    /\ Extends(snap, ctx)
    /\ NonEmpty(snap)

GetDone(t) == pc[t] = "g_done"
SetDone(t) == pc[t] = "s_done"

\* C1: a get whose snapshot has the context's commit_id, buffer and row, a
\* line_before the context's line starts with, and at least one completion,
\* returns a sequence (possibly empty), never the no-result signal.
C1_CacheHit ==
    \A t \in Threads :
        GetDone(t) /\ AllValid(cache_ctx[t], context[t]) => result[t] # None

\* a hit on a line the user has typed further on, with nothing selected
C1_Witness ==
    \E t \in Threads :
        /\ GetDone(t)
        /\ AllValid(cache_ctx[t], context[t])
        /\ Len(context[t].line_before) > Len(cache_ctx[t].line_before)
        /\ result[t] = Returned(<<>>)

\* C2: a get whose context violates any of the five validity conditions against
\* the snapshot it read returns the no-result signal.
C2_CacheMiss ==
    \A t \in Threads :
        GetDone(t) /\ ~AllValid(cache_ctx[t], context[t]) => result[t] = None

\* a miss caused by the row alone
C2_Witness ==
    \E t \in Threads :
        /\ GetDone(t)
        /\ SameCommit(cache_ctx[t], context[t])
        /\ SameBuffer(cache_ctx[t], context[t])
        /\ Extends(cache_ctx[t], context[t])
        /\ NonEmpty(cache_ctx[t])
        /\ ~SameRow(cache_ctx[t], context[t])
        /\ result[t] = None

\* some set with a non-empty batch has installed its snapshot
Seeded == \E i \in 1..Len(installs) : installs[i].completions # <<>>

\* C7: until a set with a non-empty batch has installed its snapshot, every
\* finished get has returned the no-result signal, whatever its context.
C7_Bootstrap ==
    ~Seeded => \A t \in Threads : GetDone(t) => result[t] = None

\* a get on exactly the context an empty batch was stored with
C7_Witness ==
    /\ ~Seeded
    /\ installs # <<>>
    /\ \E t \in Threads :
          /\ GetDone(t)
          /\ cache_ctx[t] = self_cache_ctx
          /\ SameCommit(cache_ctx[t], context[t])
          /\ SameBuffer(cache_ctx[t], context[t])
          /\ SameRow(cache_ctx[t], context[t])
          /\ Extends(cache_ctx[t], context[t])
          /\ result[t] = None

\* the invocation that returned last was a set, and nothing ran beside it
LastWasSet == "op" \in DOMAIN last /\ last.op = "set" /\ ~last.overlapped

\* thread t's invocation started after the last return and nothing ran beside it
Alone(t) == pc[t] # "idle" /\ ~overlapped[t]

\* the set that returned last replaced the snapshot it read
LastReplaced == LastWasSet /\ ~AllValid(last.cache_ctx, last.context)

\* ctx is the context the snapshot was captured with
CapturedWith(snap, ctx) ==
    /\ snap.change_id = ctx.change_id
    /\ snap.commit_id = ctx.commit_id
    /\ snap.buf_id = ctx.buf_id
    /\ snap.row = ctx.position[1]
    /\ snap.line_before = ctx.line_before

\* a finished get with the old context, right after a replacing set
GetOldAfterReplace(t) ==
    /\ GetDone(t)
    /\ Alone(t)
    /\ LastReplaced
    /\ CapturedWith(last.cache_ctx, context[t])

\* the sanitized completions of a batch
Sanitized(batch) == {Trans(batch[i]) : i \in 1..Len(batch)}

\* C3 as stated: after a replacing set, a get with the old context returns
\* the no-result signal, whatever the old snapshot and the new batch held.
C3_Original ==
    \A t \in Threads : GetOldAfterReplace(t) => result[t] = None

\* C3 as amended: after a replacing set, a get with the old context returns
\* the no-result signal unless the set's context has the old commit_id, buffer
\* and row, a line_before the old line starts with, and a non-empty batch; then
\* the get is a hit that returns completions of the new batch only.
C3_ReplaceThenGet ==
    \A t \in Threads :
        GetOldAfterReplace(t) =>
            LET hit == /\ last.context.commit_id = context[t].commit_id
                       /\ last.context.buf_id = context[t].buf_id
                       /\ last.context.position[1] = context[t].position[1]
                       /\ IsPrefix(last.context.line_before, context[t].line_before)
                       /\ last.completions # <<>>
            IN /\ (result[t] = None) <=> ~hit
               /\ result[t] # None =>
                     \A i \in 1..Len(result[t].tuple) :
                         result[t].tuple[i] \in Sanitized(last.completions)

\* the old snapshot held completions, the set replaced them on another
\* revision, and the get with the old context found nothing
C3_Witness ==
    \E t \in Threads :
        /\ GetOldAfterReplace(t)
        /\ NonEmpty(last.cache_ctx)
        /\ last.completions # <<>>
        /\ ~SameCommit(last.cache_ctx, last.context)
        /\ result[t] = None

\* the install that assigned the snapshot last
LastInstall == installs[Len(installs)]

\* the positions of a batch that carry the last occurrence of their uid
IsLastOfUid(batch, i) == \A j \in (i + 1)..Len(batch) : batch[j].uid # batch[i].uid

\* a batch keyed by uid: each uid's last occurrence, sanitized
Keyed(batch) ==
    [k \in {Bytes(batch[i].uid) : i \in 1..Len(batch)} |->
        Trans(batch[CHOOSE i \in 1..Len(batch) :
                        Bytes(batch[i].uid) = k /\ IsLastOfUid(batch, i)])]

\* the union of two mappings, the second winning a collision
Union(first, second) ==
    [k \in DOMAIN first \cup DOMAIN second |->
        IF k \in DOMAIN second THEN second[k] ELSE first[k]]

\* C5: a set whose context is not valid against the snapshot it read installs
\* exactly its sanitized batch keyed by uid; nothing of the old snapshot stays.
C5_FullReplace ==
    installs # <<>> /\ ~AllValid(LastInstall.cache_ctx, LastInstall.context)
        => self_cache_ctx.comps = Keyed(LastInstall.completions)

\* a set on another revision dropped an entry the old snapshot held
C5_Witness ==
    /\ installs # <<>>
    /\ ~SameCommit(LastInstall.cache_ctx, LastInstall.context)
    /\ LastInstall.completions # <<>>
    /\ \E k \in DOMAIN LastInstall.cache_ctx.comps : k \notin DOMAIN self_cache_ctx.comps

\* a finished set that merged, right after another set
SecondSetMerged(t) ==
    /\ SetDone(t)
    /\ Alone(t)
    /\ LastWasSet
    /\ AllValid(cache_ctx[t], context[t])

\* C4 as stated: after two sets in a row, the second valid for merge, the
\* mapping is the union of both batches' sanitized entries, the second winning.
C4_Original ==
    \A t \in Threads :
        SecondSetMerged(t) =>
            self_cache_ctx.comps = Union(Keyed(last.completions), Keyed(completions[t]))

\* C4 as amended: a merging set installs the mapping of the snapshot it read
\* overlaid with its sanitized batch; after two sets in a row that is the first
\* set's mapping overlaid with the second batch, which is the union of both
\* batches when the first set replaced.
C4_Merge ==
    /\ installs # <<>> /\ AllValid(LastInstall.cache_ctx, LastInstall.context)
          => self_cache_ctx.comps =
                Union(LastInstall.cache_ctx.comps, Keyed(LastInstall.completions))
    /\ \A t \in Threads :
          SecondSetMerged(t) =>
              LET first == IF AllValid(last.cache_ctx, last.context)
                           THEN Union(last.cache_ctx.comps, Keyed(last.completions))
                           ELSE Keyed(last.completions)
              IN self_cache_ctx.comps = Union(first, Keyed(completions[t]))

\* two sets in a row, the first replacing, the second merging a batch that
\* collides with the first on a uid and adds another
C4_Witness ==
    \E t \in Threads :
        /\ SecondSetMerged(t)
        /\ ~AllValid(last.cache_ctx, last.context)
        /\ \E k \in DOMAIN Keyed(last.completions) \cap DOMAIN Keyed(completions[t]) :
              Keyed(last.completions)[k] # Keyed(completions[t])[k]
        /\ DOMAIN Keyed(last.completions) # DOMAIN self_cache_ctx.comps

\* the elements of a sequence
Range(seq) == {seq[i] : i \in 1..Len(seq)}

\* a finished get right after a set with a non-empty batch, on a context with
\* the set's commit_id, buffer and row and a line equal to or extending its line
GetAfterSet(t) ==
    /\ GetDone(t)
    /\ Alone(t)
    /\ LastWasSet
    /\ last.completions # <<>>
    /\ last.context.commit_id = context[t].commit_id
    /\ last.context.buf_id = context[t].buf_id
    /\ last.context.position[1] = context[t].position[1]
    /\ IsPrefix(last.context.line_before, context[t].line_before)

\* the hashes the lookup store returned to thread t's get
Selected(t) == IF calls[t] = <<>> THEN {} ELSE Range(calls[t][1].hashes)

\* C6 as stated: such a get returns a sequence that contains the sanitized X
\* for every X of the batch whose identifier the lookup store returned.
C6_Original ==
    \A t \in Threads :
        GetAfterSet(t) =>
            /\ result[t] # None
            /\ \A i \in 1..Len(last.completions) :
                  Bytes(last.completions[i].uid) \in Selected(t)
                      => Trans(last.completions[i]) \in Range(result[t].tuple)

\* C6 as amended: such a get returns a sequence that contains the sanitized X
\* for every X that is the last of its uid in the batch and whose identifier
\* the lookup store returned.
C6_RoundTrip ==
    \A t \in Threads :
        GetAfterSet(t) =>
            /\ result[t] # None
            /\ \A i \in 1..Len(last.completions) :
                  /\ IsLastOfUid(last.completions, i)
                  /\ Bytes(last.completions[i].uid) \in Selected(t)
                  => Trans(last.completions[i]) \in Range(result[t].tuple)

\* a range edit with secondary edits was stored and came back as a plain edit
\* on a line typed further on
C6_Witness ==
    \E t \in Threads :
        /\ GetAfterSet(t)
        /\ Len(context[t].line_before) > Len(last.context.line_before)
        /\ \E i \in 1..Len(last.completions) :
              /\ IsLastOfUid(last.completions, i)
              /\ Trans(last.completions[i]) # last.completions[i]
              /\ Bytes(last.completions[i].uid) \in Selected(t)
              /\ Trans(last.completions[i]) \in Range(result[t].tuple)

\* the snapshot one set invocation builds from its context, its batch and the
\* snapshot it read
BuiltBy(r) ==
    [change_id |-> r.context.change_id,
     commit_id |-> r.context.commit_id,
     buf_id |-> r.context.buf_id,
     row |-> r.context.position[1],
     line_before |-> r.context.line_before,
     comps |-> IF AllValid(r.cache_ctx, r.context)
               THEN Union(r.cache_ctx.comps, Keyed(r.completions))
               ELSE Keyed(r.completions)]

\* the initial snapshot and the snapshots the set invocations have built
Whole == {InitCacheCtx} \cup {BuiltBy(installs[i]) : i \in 1..Len(installs)}

\* C8: the worker's snapshot, and every snapshot an invocation has read, is
\* the initial one or the record one single set invocation built; fields of
\* two invocations are never mixed.
C8_NoTornSnapshot ==
    /\ self_cache_ctx \in Whole
    /\ \A t \in Threads : cache_ctx[t] # None => cache_ctx[t] \in Whole

\* two overlapping sets of different threads have installed, and a third
\* invocation still works on a snapshot that differs from the current one in
\* its line and in its mapping
C8_Witness ==
    /\ Len(installs) >= 2
    /\ installs[Len(installs)].thread # installs[Len(installs) - 1].thread
    /\ \E t \in Threads :
          /\ cache_ctx[t] # None
          /\ cache_ctx[t] # InitCacheCtx
          /\ cache_ctx[t].line_before # self_cache_ctx.line_before
          /\ cache_ctx[t].comps # self_cache_ctx.comps
          /\ overlapped[t]

\* C9: the snapshot is always the one built by the set that installed last,
\* from that set's own read, however the sets overlapped.
C9_LastWriteWins ==
    self_cache_ctx = IF installs = <<>> THEN InitCacheCtx ELSE BuiltBy(LastInstall)

\* a lost update: two sets of different threads read the same snapshot, both
\* merged, both finished, and an entry of the one that installed first is gone
C9_Witness ==
    /\ Len(installs) >= 2
    /\ LET first == installs[Len(installs) - 1]
           second == installs[Len(installs)]
       IN /\ first.thread # second.thread
          /\ first.cache_ctx = second.cache_ctx
          /\ AllValid(first.cache_ctx, first.context)
          /\ AllValid(second.cache_ctx, second.context)
          /\ \E k \in DOMAIN Keyed(first.completions) : k \notin DOMAIN self_cache_ctx.comps
    /\ \A t \in Threads : pc[t] \in {"idle", "s_done"}

\* thread t's set has not called populate yet / has called it
BeforePopulate(t) == pc[t] \in {"s_lock", "s_read", "s_populate"}
AfterPopulate(t) == pc[t] \in {"s_lock2", "s_install", "s_done"}

\* C10: a set calls populate exactly once, after its read and before its
\* install, with the validity of the snapshot it read as the flag.
C10_PopulateOnce ==
    /\ [](\A t \in Threads :
            /\ BeforePopulate(t) => calls[t] = <<>>
            /\ pc[t] = "s_populate" => cache_ctx[t] # None
            /\ AfterPopulate(t) =>
                  /\ Len(calls[t]) = 1
                  /\ calls[t][1].fn = "populate"
                  /\ calls[t][1].use_cache = AllValid(cache_ctx[t], context[t]))
    /\ [][\A t \in Threads :
            /\ calls'[t] # calls[t] /\ pc[t] \in {"s_populate"}
                  => cache_ctx[t] # None /\ pc'[t] = "s_lock2"
            /\ installs' # installs /\ pc'[t] = "s_done" /\ pc[t] # "s_done"
                  => Len(calls[t]) = 1 /\ calls'[t] = calls[t]]_vars

\* a set passed TRUE although the snapshot current at the call had moved on
C10_Witness ==
    \E t \in Threads :
        /\ AfterPopulate(t)
        /\ calls[t][1].use_cache
        /\ ~AllValid(self_cache_ctx, context[t])
        /\ pc[t] # "s_done"

\* the positions inside a `with self._lock:` block
Critical == {"g_read", "s_read", "s_install"}

\* the threads inside a critical section
Holders == {t \in Threads : pc[t] \in Critical}

\* C11: at most one thread is inside a critical section, and it is the lock's
\* holder; a step taken under the lock only copies or assigns the snapshot
\* reference and releases; select and populate are called by a thread that
\* does not hold the lock; a finished get has taken the lock once, a finished
\* set twice.
C11_LockDiscipline ==
    /\ [](/\ Cardinality(Holders) <= 1
          /\ \A t \in Threads :
                /\ lock = t <=> t \in Holders
                /\ GetDone(t) => acquired[t] = 1
                /\ SetDone(t) => acquired[t] = 2)
    /\ [][\A t \in Threads :
            /\ calls'[t] # calls[t] /\ calls'[t] # <<>> => lock # t /\ lock' # t
            /\ lock = t /\ pc'[t] # pc[t] =>
                  /\ lock' = NoThread
                  /\ db' = db /\ calls' = calls
                  /\ context' = context /\ completions' = completions
                  /\ result' = result
                  /\ \/ cache_ctx'[t] = self_cache_ctx /\ self_cache_ctx' = self_cache_ctx
                     \/ self_cache_ctx' = Installed(t) /\ cache_ctx' = cache_ctx]_vars

\* one set is inside its second critical section while another, back from
\* populate, waits for the lock
C11_Witness ==
    \E t \in Threads, u \in Threads :
        /\ t # u
        /\ lock = t /\ pc[t] = "s_install" /\ acquired[t] = 2
        /\ pc[u] = "s_lock2" /\ acquired[u] = 1 /\ Len(calls[u]) = 1

\* the hashes that have an entry in comps, in their order, each replaced by
\* its entry
Resolved(hashes, comps) ==
    LET kept == SelectSeq(hashes, LAMBDA h : h \in DOMAIN comps)
    IN [i \in 1..Len(kept) |-> comps[kept[i]]]

\* C12: a get that hits has made one select call and returns the hashes of
\* that call in store order, resolved against the snapshot it read under the
\* lock, hashes without an entry there dropped, whatever has been installed
\* since.
C12_GetFromReadSnapshot ==
    \A t \in Threads :
        GetDone(t) /\ result[t] # None =>
            /\ Len(calls[t]) = 1
            /\ calls[t][1].fn = "select"
            /\ result[t] = Returned(Resolved(calls[t][1].hashes, cache_ctx[t].comps))

\* a set installed another snapshot between the get's read and its select:
\* the store returned an identifier the read snapshot lacks, then one it has,
\* and the current snapshot would have resolved them differently
C12_Witness ==
    \E t \in Threads :
        /\ GetDone(t) /\ result[t] # None
        /\ self_cache_ctx # cache_ctx[t]
        /\ LET hashes == calls[t][1].hashes
           IN /\ Len(hashes) = 2
              /\ hashes[1] \notin DOMAIN cache_ctx[t].comps
              /\ hashes[2] \in DOMAIN cache_ctx[t].comps
              /\ result[t].tuple = <<cache_ctx[t].comps[hashes[2]]>>
              /\ Resolved(hashes, self_cache_ctx.comps) # result[t].tuple

\* the two kinds of primary edit _trans leaves in place
Simple == {"Edit", "SnippetEdit"}

\* the primary edit the snapshot holds for a completion handed to set
Stored(c) ==
    IF c.primary_edit.type \in Simple
    THEN c.primary_edit
    ELSE [type |-> "Edit", new_text |-> c.primary_edit.new_text]

\* C13: every completion of the snapshot's mapping has no secondary edits and
\* a plain or snippet primary edit, and sits under the bytes of its own uid;
\* a completion of the batch installed last is stored with its own primary
\* edit when that is plain or snippet, and otherwise with a plain edit that
\* carries its new_text and nothing else.
C13_SanitizedStorage ==
    /\ \A k \in DOMAIN self_cache_ctx.comps :
          LET c == self_cache_ctx.comps[k]
          IN /\ c.secondary_edits = <<>>
             /\ c.primary_edit.type \in Simple
             /\ c.primary_edit.type = "Edit" => DOMAIN c.primary_edit = {"type", "new_text"}
             /\ k = Bytes(c.uid)
    /\ installs # <<>> =>
          \A i \in 1..Len(LastInstall.completions) :
              LET c == LastInstall.completions[i]
              IN IsLastOfUid(LastInstall.completions, i) =>
                    /\ Bytes(c.uid) \in DOMAIN self_cache_ctx.comps
                    /\ self_cache_ctx.comps[Bytes(c.uid)] =
                          Completion(c.uid, Stored(c), <<>>)

\* the mapping holds a snippet edit next to the plain edit that a range edit
\* with a secondary edit was just stored as
C13_Witness ==
    /\ installs # <<>>
    /\ Len(LastInstall.completions) = 1
    /\ LET c == LastInstall.completions[1]
       IN /\ c.primary_edit.type = "RangeEdit"
          /\ c.secondary_edits # <<>>
          /\ self_cache_ctx.comps[Bytes(c.uid)].primary_edit = Edit("y")
          /\ \E k \in DOMAIN self_cache_ctx.comps :
                self_cache_ctx.comps[k].primary_edit = SnippetEdit("x")

\* C14: _trans applied to its own result changes nothing, for the completions
\* handed to set and for the completions the snapshot holds, and it leaves a
\* plain or snippet primary edit as it is.
C14_SanitizeIdempotent ==
    /\ \A t \in Threads : \A i \in 1..Len(completions[t]) :
          LET c == completions[t][i]
          IN /\ Trans(Trans(c)) = Trans(c)
             /\ c.primary_edit.type \in Simple => Trans(c).primary_edit = c.primary_edit
    /\ \A k \in DOMAIN self_cache_ctx.comps :
          Trans(self_cache_ctx.comps[k]) = self_cache_ctx.comps[k]

\* a set has stored a snippet completion that came with a secondary edit:
\* the stored completion differs from the one handed in and is a fixed point
C14_Witness ==
    \E t \in Threads :
        /\ SetDone(t)
        /\ Len(completions[t]) = 1
        /\ LET c == completions[t][1]
               s == self_cache_ctx.comps[Bytes(c.uid)]
           IN /\ c.primary_edit.type = "SnippetEdit"
              /\ c.secondary_edits # <<>>
              /\ s = Trans(c) /\ s # c /\ Trans(s) = s
              /\ s.primary_edit = c.primary_edit

\* thread t's invocation is ending with the exception of a store call
Raised(t) == pc[t] \in {"g_raised", "s_raised"}

\* C15: a populate that raises ends the set at once, with the lock not held
\* and nothing installed, so that the snapshot is the one the set read when
\* nothing else ran; a select that raises ends the get the same way; from
\* there the invocation only returns the error; the lock is held only by a
\* thread inside a critical section.
C15_StoreFailure ==
    /\ [](/\ lock = NoThread <=> Holders = {}
          /\ \A t \in Threads :
                /\ Raised(t) => lock # t /\ calls[t][Len(calls[t])].raised
                /\ pc[t] = "s_raised" /\ Alone(t) => self_cache_ctx = cache_ctx[t])
    /\ [][\A t \in Threads :
            /\ pc'[t] = "s_raised" /\ pc[t] # "s_raised" =>
                  /\ pc[t] = "s_populate"
                  /\ self_cache_ctx' = self_cache_ctx /\ installs' = installs
                  /\ lock' = lock
            /\ pc'[t] = "g_raised" /\ pc[t] # "g_raised" =>
                  /\ pc[t] = "g_check"
                  /\ self_cache_ctx' = self_cache_ctx /\ db' = db
                  /\ result' = result /\ lock' = lock
            /\ Raised(t) /\ pc'[t] # pc[t] =>
                  /\ pc'[t] = "idle" /\ last'.op = "raised"
                  /\ self_cache_ctx' = self_cache_ctx /\ installs' = installs
                  /\ lock' = lock]_vars

\* after a set that ended with populate's error, a set that ran alone has
\* taken the lock twice and installed
C15_Witness ==
    /\ "op" \in DOMAIN last /\ last.op = "raised" /\ last.at = "s_raised"
    /\ \E t \in Threads :
          /\ SetDone(t) /\ Alone(t) /\ acquired[t] = 2
          /\ self_cache_ctx = Installed(t)
          /\ self_cache_ctx # InitCacheCtx

\* the keys of the uids of a batch
UidKeys(batch) == {Bytes(batch[i].uid) : i \in 1..Len(batch)}

\* C16: the pool a set passes to populate has the uids of its batch as its
\* keys, no more and no fewer, and maps each to the new_text of the sanitized
\* primary edit of the batch's completion of that uid; no key comes from the
\* snapshot the set read, whether it merges or replaces.
C16_PoolOfBatch ==
    \A t \in Threads :
        AfterPopulate(t) =>
            LET pool == calls[t][1].pool
                batch == completions[t]
            IN /\ DOMAIN pool = UidKeys(batch)
               /\ \A i \in 1..Len(batch) :
                     IsLastOfUid(batch, i) =>
                        pool[Bytes(batch[i].uid)] = Stored(batch[i]).new_text

\* a merging set whose pool lacks a key of the snapshot it read and carries
\* the text of a range edit
C16_Witness ==
    \E t \in Threads :
        /\ AfterPopulate(t)
        /\ calls[t][1].use_cache
        /\ DOMAIN cache_ctx[t].comps \ DOMAIN calls[t][1].pool # {}
        /\ \E k \in DOMAIN calls[t][1].pool : calls[t][1].pool[k] = "y"

\* positions i < j of a batch carry one uid, and j is its last occurrence
Duplicate(batch, i, j) ==
    /\ i < j
    /\ batch[i].uid = batch[j].uid
    /\ IsLastOfUid(batch, j)

\* C17: a set whose batch repeats a uid goes on to its end like any other:
\* while it runs it has a step to take, its populate call is made with the
\* new_text of the uid's last occurrence, and the mapping it installs holds
\* the sanitized last occurrence.
C17_DuplicateUids ==
    \A t \in Threads :
        LET batch == completions[t]
        IN \A i \in 1..Len(batch), j \in 1..Len(batch) :
              Duplicate(batch, i, j) =>
                  /\ pc[t] # "idle" => ENABLED Proceed(t)
                  /\ AfterPopulate(t) =>
                        /\ "raised" \notin DOMAIN calls[t][1]
                        /\ calls[t][1].pool[Bytes(batch[j].uid)] = Stored(batch[j]).new_text
                  /\ SetDone(t) =>
                        self_cache_ctx.comps[Bytes(batch[j].uid)] =
                            Completion(batch[j].uid, Stored(batch[j]), <<>>)

\* a finished set of a plain completion followed by a range edit of the same
\* uid: mapping and pool hold the second
C17_Witness ==
    \E t \in Threads :
        /\ SetDone(t)
        /\ Len(completions[t]) = 2
        /\ Duplicate(completions[t], 1, 2)
        /\ completions[t][1].primary_edit = Edit("x")
        /\ self_cache_ctx.comps[Bytes(1)].primary_edit = Edit("y")
        /\ calls[t][1].pool[Bytes(1)] = "y"
        /\ Cardinality(DOMAIN calls[t][1].pool) = 1

\* the positions of a get and of a set that has not come to its end
GetRunning == {"g_lock", "g_read", "g_check"}
SetRunning == {"s_lock", "s_read", "s_populate", "s_lock2", "s_install"}

\* C18: every started get reaches its return and every started set its end,
\* and the thread is free again afterwards; while an invocation is running
\* some thread has a step to take; the lock is free exactly when no thread is
\* inside a critical section.
C18_Termination ==
    /\ \A t \in Threads :
          /\ (pc[t] \in GetRunning) ~> GetDone(t)
          /\ (pc[t] \in SetRunning) ~> SetDone(t)
          /\ (pc[t] # "idle") ~> (pc[t] = "idle")
    /\ []((\E t \in Threads : pc[t] # "idle") => \E u \in Threads : ENABLED Proceed(u))
    /\ [](lock = NoThread <=> Holders = {})

\* a set back from populate waits for the lock while the other thread's set
\* holds it inside its first critical section
C18_Witness ==
    \E t \in Threads, u \in Threads :
        /\ t # u
        /\ pc[t] = "s_lock2"
        /\ pc[u] = "s_read" /\ lock = u
        /\ ~ENABLED SetAcquire2(t)

\* the positions of a get
GetPositions == GetRunning \cup {"g_done"}

\* C19: a step of a get changes neither the snapshot nor the store; a get
\* makes no store call before its check, at most one afterwards, a select,
\* and none when the snapshot it read is not valid for its context; the
\* snapshot changes only in the install step of a set.
C19_GetReadOnly ==
    /\ [](\A t \in Threads :
            pc[t] \in GetPositions =>
                /\ Len(calls[t]) <= 1
                /\ \A i \in 1..Len(calls[t]) : calls[t][i].fn = "select"
                /\ pc[t] \in GetRunning => calls[t] = <<>>
                /\ GetDone(t) /\ ~AllValid(cache_ctx[t], context[t]) =>
                      calls[t] = <<>> /\ result[t] = None)
    /\ [][/\ \A t \in Threads :
                pc[t] \in GetPositions /\ pc'[t] # pc[t] =>
                    /\ self_cache_ctx' = self_cache_ctx
                    /\ db' = db
                    /\ installs' = installs
          /\ self_cache_ctx' # self_cache_ctx =>
                \E t \in Threads :
                    /\ pc[t] = "s_install" /\ pc'[t] = "s_done"
                    /\ self_cache_ctx' = Installed(t)]_vars

\* a get that missed on a seeded snapshot of another row of text, with an
\* indexed store it did not query, while the other thread's set has installed
C19_Witness ==
    \E t \in Threads, u \in Threads :
        /\ t # u
        /\ GetDone(t) /\ result[t] = None /\ calls[t] = <<>>
        /\ DOMAIN cache_ctx[t].comps # {} /\ db # {}
        /\ SetDone(u) /\ overlapped[t]
        /\ self_cache_ctx # cache_ctx[t]

\* no thread is inside a set
NoSetInFlight == \A t \in Threads : pc[t] \notin SetRunning \cup {"s_done"}

\* the identifiers indexed in the store are the keys of the snapshot's mapping
StoreMatchesCache == db = DOMAIN self_cache_ctx.comps

\* C20 as stated: whenever no set is in flight, the store's identifiers are
\* the keys of the snapshot's mapping.
C20_Original == NoSetInFlight => StoreMatchesCache

\* C20: whenever no set is in flight and no set was ever called while
\* another set had not yet installed, the store's identifiers are the keys of
\* the snapshot's mapping, whatever gets ran in between.
C20_StoreMatchesCache == NoSetInFlight /\ ~raced => StoreMatchesCache

\* two sets one after the other, the second merging, left a store and a
\* mapping of two identifiers each while a get of the other thread ran
C20_Witness ==
    /\ NoSetInFlight /\ ~raced
    /\ Len(installs) = 2
    /\ Cardinality(db) = 2
    /\ StoreMatchesCache
    /\ \E t \in Threads : pc[t] \in GetPositions /\ overlapped[t]

====
